---- MODULE Spec2Model ----
(***************************************************************************)
(* The Whisper transcription pipeline of code/inference.py (input_fn,      *)
(* load_audio, predict_fn, output_fn) as driven by the Flask front end     *)
(* ml-model/serve_flask.py (POST /invocations, threaded) and by the        *)
(* direct caller ml-model/scripts/test_inference.py.                       *)
(*                                                                         *)
(* Bytes are modelled by what they hold: an audio payload is either junk   *)
(* or a WAV container described by (channels, rate, frames).  Floating     *)
(* point durations are exact rationals (num / den).                        *)
(***************************************************************************)
EXTENDS Integers, Sequences, FiniteSets, TLC

\* ------------------------------------------------------------------ bounds
NumThreads == 2
MaxChannels == 2
OverFrames == 1
MeasuredMicros == 1234567

\* ------------------------------------------------------- program constants
DEFAULT_SAMPLE_RATE == 16000
MAX_AUDIO_LENGTH_SECONDS == 300

Threads == 1..NumThreads

\* JSON "key not in document" and JSON null / Python None
Absent == "<absent>"
Null == "<null>"

\* ------------------------------------------------------------ audio bytes
Rates == {8000, 16000, 44100}
Seconds == {0, 1, MAX_AUDIO_LENGTH_SECONDS}

Junk == [fmt |-> "junk", channels |-> 0, rate |-> 0, frames |-> 0]

WavFiles ==
    { [fmt |-> "wav", channels |-> c, rate |-> r, frames |-> r * s + e] :
        c \in 1..MaxChannels, r \in Rates, s \in Seconds, e \in 0..OverFrames }

Payloads == {Junk} \cup WavFiles

NoBuffer == [samples |-> 0, rate |-> 0, channels |-> 0]

\* ----------------------------------------------------------- base64 text
\* The value of the "audio" field.  isStr: it is a JSON string; junk: the
\* text contains characters outside the base64 alphabet; padOk: the number
\* of alphabet characters and the padding are complete; payload: the bytes
\* the alphabet characters encode.
NoText == [present |-> FALSE, isStr |-> FALSE, junk |-> FALSE, padOk |-> FALSE,
           payload |-> Junk]

B64Texts ==
    { [present |-> TRUE, isStr |-> TRUE, junk |-> j, padOk |-> p, payload |-> b] :
        j \in BOOLEAN, p \in BOOLEAN, b \in Payloads }
    \cup { [present |-> TRUE, isStr |-> FALSE, junk |-> FALSE, padOk |-> FALSE,
            payload |-> Junk] }

\* base64.b64encode(b).decode('utf-8')
B64Encode(b) ==
    [present |-> TRUE, isStr |-> TRUE, junk |-> FALSE, padOk |-> TRUE, payload |-> b]

\* RFC 4648 validity of a text, what base64.b64decode(s, validate=True) accepts
StrictBase64(s) == s.isStr /\ ~s.junk /\ s.padOk

\* a decoder that loses the last frame of the bytes it decodes
b64decodeTruncating(s) ==
    IF s.isStr /\ s.padOk
    THEN [ok |-> TRUE,
          bytes |-> [s.payload EXCEPT !.frames = IF @ > 0 THEN @ - 1 ELSE 0]]
    ELSE [ok |-> FALSE, bytes |-> Junk]

\* base64.b64decode(s) as the parser calls it (validate defaults to False):
\* a non-string raises TypeError, characters outside the alphabet are
\* discarded, and only incomplete padding raises binascii.Error.
b64decode(s) ==
    IF s.isStr /\ s.padOk THEN [ok |-> TRUE, bytes |-> s.payload]
    ELSE [ok |-> FALSE, bytes |-> Junk]

\* ------------------------------------------------------------- audio_url
S3Prefix == "s3://"
NoUrl == [present |-> FALSE, parts |-> <<>>]

UrlTexts ==
    { <<S3Prefix, "bucket", "/", "key">>,
      <<S3Prefix, "bucket", "/", "dir", "/", "key">>,
      <<S3Prefix, "bucket", "/", S3Prefix, "key">>,
      <<S3Prefix, "bucket">>,
      <<"tmp", "/", "a.wav">> }

Urls == { [present |-> TRUE, parts |-> u] : u \in UrlTexts }

RECURSIVE RemoveAll(_, _)
\* str.replace(tok, "")
RemoveAll(s, tok) ==
    IF s = <<>> THEN <<>>
    ELSE IF Head(s) = tok THEN RemoveAll(Tail(s), tok)
    ELSE <<Head(s)>> \o RemoveAll(Tail(s), tok)

FirstIndex(s, tok) ==
    IF \E i \in 1..Len(s) : s[i] = tok
    THEN CHOOSE i \in 1..Len(s) : s[i] = tok /\ \A j \in 1..(i - 1) : s[j] # tok
    ELSE 0

\* audio_url.replace("s3://", "").split("/", 1) unpacked into bucket, key
SplitBucketKey(parts) ==
    LET rest == RemoveAll(parts, S3Prefix)
        i == FirstIndex(rest, "/")
    IN IF i = 0 THEN [ok |-> FALSE, bucket |-> <<>>, key |-> <<>>]
       ELSE [ok |-> TRUE, bucket |-> SubSeq(rest, 1, i - 1),
             key |-> SubSeq(rest, i + 1, Len(rest))]

NoFetch == [kind |-> "none", bucket |-> <<>>, key |-> <<>>, path |-> <<>>]

\* What the external fetch (s3.get_object / open().read()) hands back:
\* a failure, or the bytes stored there.
StoredPayloads ==
    { Junk,
      [fmt |-> "wav", channels |-> 1, rate |-> DEFAULT_SAMPLE_RATE,
       frames |-> DEFAULT_SAMPLE_RATE],
      [fmt |-> "wav", channels |-> MaxChannels, rate |-> 44100,
       frames |-> 44100 * MAX_AUDIO_LENGTH_SECONDS + OverFrames] }

FetchOutcomes ==
    { [ok |-> FALSE, bytes |-> Junk] } \cup { [ok |-> TRUE, bytes |-> b] : b \in StoredPayloads }


\* ----------------------------------------------------- request documents
Languages == {Absent, Null, "", "en"}
Tasks == {Absent, Null, "", "transcribe", "translate", "summarize"}

NoDoc == [shape |-> "none", audio |-> NoText, audio_url |-> NoUrl,
          language |-> Absent, task |-> Absent]

\* A JSON value that is not an object (a list, a string, a number, null)
NonObjectDoc == [NoDoc EXCEPT !.shape = "nonobject"]

ObjectDocs ==
    { [shape |-> "object", audio |-> a, audio_url |-> NoUrl, language |-> l, task |-> k] :
        a \in B64Texts, l \in Languages, k \in Tasks }
    \cup
    { [shape |-> "object", audio |-> NoText, audio_url |-> u, language |-> l, task |-> k] :
        u \in Urls \cup {NoUrl}, l \in Languages, k \in Tasks }

Docs == {NonObjectDoc} \cup ObjectDocs

\* The request body as sent: the bytes of an audio file, the UTF-8 text of a
\* JSON document, or text that is not JSON.
AudioBodies == { [form |-> "audio", payload |-> b, doc |-> NoDoc] : b \in Payloads }
JsonBodies == { [form |-> "json", payload |-> Junk, doc |-> d] : d \in Docs }
MalformedBody == [form |-> "malformed", payload |-> Junk, doc |-> NoDoc]

JSON == "application/json"
OCTET == "application/octet-stream"
OtherContentTypes == {"application/json; charset=utf-8", "text/plain", "audio/wav"}
ContentTypes == {JSON, OCTET} \cup OtherContentTypes

SampleJsonBody ==
    [form |-> "json", payload |-> Junk,
     doc |-> [shape |-> "object",
              audio |-> B64Encode([fmt |-> "wav", channels |-> 1,
                                   rate |-> DEFAULT_SAMPLE_RATE,
                                   frames |-> DEFAULT_SAMPLE_RATE]),
              audio_url |-> NoUrl, language |-> "en", task |-> "transcribe"]]

\* via: "flask" is POST /invocations; "direct" is a caller handing the
\* request bytes to input_fn itself, as test_inference.py does.
Vias == {"flask", "direct"}

Requests ==
    { [via |-> v, content_type |-> JSON, body |-> b] :
        v \in Vias, b \in JsonBodies \cup AudioBodies \cup {MalformedBody} }
    \cup
    { [via |-> v, content_type |-> c, body |-> b] :
        v \in Vias, c \in ContentTypes \ {JSON},
        b \in AudioBodies \cup {MalformedBody, SampleJsonBody} }

NoRequest == [via |-> "none", content_type |-> "none", body |-> MalformedBody]

\* The bytes of a body read as an audio file.
AsAudio(body) == IF body.form = "audio" THEN body.payload ELSE Junk

\* ----------------------------------------------------------- serve_flask
\* request.get_json() / request.data: what invocations() hands to input_fn.
\* parsed = TRUE: an already parsed JSON value, not bytes.
FlaskData(rq) ==
    IF rq.content_type = JSON
    THEN IF rq.body.form = "json"
         THEN [ok |-> TRUE, parsed |-> TRUE, body |-> rq.body]
         ELSE [ok |-> FALSE, parsed |-> FALSE, body |-> rq.body]
    ELSE [ok |-> TRUE, parsed |-> FALSE, body |-> rq.body]

\* ----------------------------------------------------- input_fn, parsing
ParseBase == [ok |-> TRUE, errType |-> "none", audio_data |-> Junk,
              language |-> Null, task |-> "transcribe", fetch |-> NoFetch]

ParseFail(r, type) == [r EXCEPT !.ok = FALSE, !.errType = type]

\* data.get("language")
GetLanguage(doc) == IF doc.language = Absent THEN Null ELSE doc.language

\* data.get("task") without the default
GetTaskNoDefault(doc) == IF doc.task = Absent THEN Null ELSE doc.task

\* data.get("task", "transcribe")
GetTask(doc) == IF doc.task = Absent THEN "transcribe" ELSE doc.task

\* the audio_url branch; fo is what the external fetch hands back
ResolveUrl(r, url, fo) ==
    IF Head(url.parts) = S3Prefix
    THEN LET bk == SplitBucketKey(url.parts)
         IN IF ~bk.ok THEN ParseFail(r, "ValueError")
            ELSE LET f == [kind |-> "s3", bucket |-> bk.bucket, key |-> bk.key,
                           path |-> <<>>]
                 IN IF fo.ok THEN [r EXCEPT !.fetch = f, !.audio_data = fo.bytes]
                    ELSE ParseFail([r EXCEPT !.fetch = f], "ClientError")
    ELSE LET f == [kind |-> "file", bucket |-> <<>>, key |-> <<>>, path |-> url.parts]
         IN IF fo.ok THEN [r EXCEPT !.fetch = f, !.audio_data = fo.bytes]
            ELSE ParseFail([r EXCEPT !.fetch = f], "OSError")

\* the application/json branch on request bytes
ParseJson(body, fo) ==
    IF body.form = "audio" THEN ParseFail(ParseBase, "UnicodeDecodeError")
    ELSE IF body.form = "malformed" THEN ParseFail(ParseBase, "ValueError")
    ELSE IF body.doc.shape # "object" THEN ParseFail(ParseBase, "AttributeError")
    ELSE LET doc == body.doc
             r == [ParseBase EXCEPT !.language = GetLanguage(doc), !.task = GetTask(doc)]
         IN IF doc.audio.present
            THEN LET dec == b64decode(doc.audio)
                 IN IF dec.ok THEN [r EXCEPT !.audio_data = dec.bytes]
                    ELSE ParseFail(r, "ValueError")
            ELSE IF doc.audio_url.present THEN ResolveUrl(r, doc.audio_url, fo)
            ELSE ParseFail(r, "ValueError")

\* a parser whose last branch takes any other content type as raw bytes
ParseInputFallback(data, content_type, fo) ==
    IF content_type = JSON
    THEN IF data.parsed THEN ParseFail(ParseBase, "AttributeError")
         ELSE ParseJson(data.body, fo)
    ELSE [ParseBase EXCEPT !.audio_data = AsAudio(data.body)]

\* input_fn up to the call of load_audio.  data is what the caller passes
\* as request_body: bytes, or (data.parsed) an already parsed JSON value.
ParseInput(data, content_type, fo) ==
    IF content_type = JSON
    THEN IF data.parsed THEN ParseFail(ParseBase, "AttributeError")
         ELSE ParseJson(data.body, fo)
    ELSE IF content_type = OCTET
    THEN [ParseBase EXCEPT !.audio_data = AsAudio(data.body)]
    ELSE ParseFail(ParseBase, "ValueError")

\* ------------------------------------------------------------ load_audio
\* sf.read(BytesIO(audio_data), dtype='float32')
SfRead(b) ==
    IF b.fmt = "wav"
    THEN [ok |-> TRUE, buf |-> [samples |-> b.frames, rate |-> b.rate, channels |-> b.channels]]
    ELSE [ok |-> FALSE, buf |-> NoBuffer]

\* np.mean(audio_array, axis=1) when the array has more than one column
Downmix(buf) == IF buf.channels > 1 THEN [buf EXCEPT !.channels = 1] ELSE buf

RECURSIVE Gcd(_, _)
Gcd(a, b) == IF b = 0 THEN a ELSE Gcd(b, a % b)

\* ceil(n * target / orig), computed without leaving 32 bits
ResampleLen(n, orig, target) ==
    LET g == Gcd(target, orig)
        p == target \div g
        q == orig \div g
    IN p * (n \div q) + (((n % q) * p + q - 1) \div q)

\* the resampling without the assignment sample_rate = DEFAULT_SAMPLE_RATE
ResampleKeepRate(buf) ==
    IF buf.rate # DEFAULT_SAMPLE_RATE
    THEN [buf EXCEPT !.samples = ResampleLen(buf.samples, buf.rate, DEFAULT_SAMPLE_RATE)]
    ELSE buf

\* librosa.resample(audio_array, orig_sr, target_sr) and the rate assignment
Resample(buf) ==
    IF buf.rate # DEFAULT_SAMPLE_RATE
    THEN [buf EXCEPT !.samples = ResampleLen(buf.samples, buf.rate, DEFAULT_SAMPLE_RATE),
                     !.rate = DEFAULT_SAMPLE_RATE]
    ELSE buf

\* ---------------------------------------------------- input_fn, validation
Duration(buf) == [num |-> buf.samples, den |-> buf.rate]

NoDuration == [num |-> 0, den |-> 1]

\* the limit taken as exclusive: duration >= MAX_AUDIO_LENGTH_SECONDS
TooLongInclusive(d) == d.num >= MAX_AUDIO_LENGTH_SECONDS * d.den

\* duration > MAX_AUDIO_LENGTH_SECONDS
TooLong(d) == d.num > MAX_AUDIO_LENGTH_SECONDS * d.den

NoRecord == [audio |-> NoBuffer, sample_rate |-> 0, language |-> Null,
             task |-> Null, duration |-> NoDuration]


\* ------------------------------------------------------------ predict_fn
\* Python truth value of a JSON scalar: None and "" are false
Truthy(v) == v \notin {Null, "", Absent}

NoKwargs == [language |-> Absent, task |-> Absent]

\* generate_kwargs as built from the record of input_fn
GenerateKwargs(record) ==
    LET language == record.language
        task == IF record.task = Absent THEN "transcribe" ELSE record.task
    IN [language |-> IF Truthy(language) THEN language ELSE Absent,
        task |-> IF Truthy(task) THEN task ELSE Absent]

PredictionKeys == {"transcription", "language", "task", "inference_time_seconds",
                   "audio_duration_seconds", "model"}

ModelName == "whisper-large-v3-turbo"
StubText == "hello world"

NoPrediction == [keys |-> {}, transcription |-> "", language |-> Null, task |-> Null,
                 inference_time_seconds |-> 0, audio_duration_seconds |-> NoDuration,
                 model |-> ""]

\* the dictionary predict_fn returns; micros is the measured latency
Prediction(record, micros) ==
    LET language == record.language
        task == IF record.task = Absent THEN "transcribe" ELSE record.task
    IN [keys |-> PredictionKeys,
        transcription |-> StubText,
        language |-> IF Truthy(language) THEN language ELSE "auto-detected",
        task |-> task,
        inference_time_seconds |-> micros,
        audio_duration_seconds |-> record.duration,
        model |-> ModelName]

\* ------------------------------------------------------------- output_fn
ACCEPT_JSON == "application/json"
ACCEPT_ANY == "*/*"
ACCEPT_TEXT == "text/plain"
Accepts == {ACCEPT_JSON, ACCEPT_ANY, ACCEPT_TEXT, "application/xml", "text/html"}

NoMetadata == [language |-> Null, task |-> Null, model |-> "",
               inference_time_seconds |-> 0, audio_duration_seconds |-> 0]

NoBody == [kind |-> "none", success |-> FALSE, transcription |-> "",
           metadata |-> NoMetadata, error |-> ""]

\* round(x, 3) of a latency kept in microseconds: milliseconds
Round3(micros) == (micros + 500) \div 1000

\* round(d, 2) of a duration num/den seconds: hundredths of a second
Round2(d) == (2 * 100 * d.num + d.den) \div (2 * d.den)

\* {"success": False, "error": str(e)}
ErrorEnvelope(msg) == [NoBody EXCEPT !.kind = "envelope", !.error = msg]

\* the application/json branch; a missing key raises KeyError inside the try
StructuredBody(prediction) ==
    IF PredictionKeys \subseteq prediction.keys
    THEN [kind |-> "structured", success |-> TRUE,
          transcription |-> prediction.transcription,
          metadata |-> [language |-> prediction.language,
                        task |-> prediction.task,
                        model |-> prediction.model,
                        inference_time_seconds |->
                            Round3(prediction.inference_time_seconds),
                        audio_duration_seconds |->
                            Round2(prediction.audio_duration_seconds)],
          error |-> ""]
    ELSE ErrorEnvelope("KeyError")

\* the text/plain branch
TextBody(prediction) ==
    IF "transcription" \in prediction.keys
    THEN [NoBody EXCEPT !.kind = "text", !.transcription = prediction.transcription]
    ELSE ErrorEnvelope("KeyError")

\* a formatter that does not take "*/*" for the structured representation
output_fnNoWildcard(prediction, accept) ==
    IF accept = ACCEPT_JSON THEN StructuredBody(prediction)
    ELSE IF accept = ACCEPT_TEXT THEN TextBody(prediction)
    ELSE ErrorEnvelope("Unsupported accept type")

output_fn(prediction, accept) ==
    IF accept = ACCEPT_JSON \/ accept = ACCEPT_ANY THEN StructuredBody(prediction)
    ELSE IF accept = ACCEPT_TEXT THEN TextBody(prediction)
    ELSE ErrorEnvelope("Unsupported accept type")

\* ------------------------------------------------------------ front end
NoResponse == [status |-> 0, body |-> NoBody]

\* jsonify({'error': str(e)}), 500
FlaskError(msg) == [status |-> 500, body |-> [NoBody EXCEPT !.kind = "error", !.error = msg]]

NoError == [stage |-> "none", type |-> "none"]
NoCalls == [fetch |-> 0, decode |-> 0, generate |-> 0]


\* ---------------------------------------------------------------- /ping
NoAnswer == [status |-> 0, body |-> "none"]

\* jsonify({'status': 'healthy'}), 200
Healthy == [status |-> 200, body |-> "healthy"]

\* ------------------------------------------------------------------ state
VARIABLES
    pc,        \* per worker thread: the stage its request has reached
    req,       \* the request the thread serves
    parsed,    \* input_fn's locals after parsing: audio_data, language, task
    buf,       \* the audio array and its sample rate
    rec,       \* the dictionary input_fn returned
    kwargs,    \* generate_kwargs handed to model.generate
    pred,      \* the dictionary predict_fn returned
    accept,    \* the representation asked of output_fn
    out,       \* the bytes output_fn returned
    resp,      \* the HTTP answer: status and body
    err,       \* the exception that ended the request: stage and type
    fetched,   \* the fetch issued to the object store or the file system
    calls,     \* how often the request called fetch, sf.read, model.generate
    health     \* the answer to GET /ping that is on its way to the client

vars == <<pc, req, parsed, buf, rec, kwargs, pred, accept, out, resp, err, fetched, calls,
          health>>

pipeline == <<pc, req, parsed, buf, rec, kwargs, pred, accept, out, resp, err, fetched, calls>>

Stages == {"idle", "received", "parsed", "decoded", "normalized", "validated",
           "inferring", "inferred", "formatted", "responded", "failed"}

Terminal == {"responded", "failed"}

Init ==
    /\ pc = [t \in Threads |-> "idle"]
    /\ req = [t \in Threads |-> NoRequest]
    /\ parsed = [t \in Threads |-> ParseBase]
    /\ buf = [t \in Threads |-> NoBuffer]
    /\ rec = [t \in Threads |-> NoRecord]
    /\ kwargs = [t \in Threads |-> NoKwargs]
    /\ pred = [t \in Threads |-> NoPrediction]
    /\ accept = [t \in Threads |-> "none"]
    /\ out = [t \in Threads |-> NoBody]
    /\ resp = [t \in Threads |-> NoResponse]
    /\ err = [t \in Threads |-> NoError]
    /\ fetched = [t \in Threads |-> NoFetch]
    /\ calls = [t \in Threads |-> NoCalls]
    /\ health = NoAnswer

\* A request arrives and is given a worker thread of its own.
Receive(t, rq) ==
    /\ pc[t] = "idle"
    /\ pc' = [pc EXCEPT ![t] = "received"]
    /\ req' = [req EXCEPT ![t] = rq]
    /\ parsed' = [parsed EXCEPT ![t] = ParseBase]
    /\ buf' = [buf EXCEPT ![t] = NoBuffer]
    /\ rec' = [rec EXCEPT ![t] = NoRecord]
    /\ kwargs' = [kwargs EXCEPT ![t] = NoKwargs]
    /\ pred' = [pred EXCEPT ![t] = NoPrediction]
    /\ accept' = [accept EXCEPT ![t] = "none"]
    /\ out' = [out EXCEPT ![t] = NoBody]
    /\ resp' = [resp EXCEPT ![t] = NoResponse]
    /\ err' = [err EXCEPT ![t] = NoError]
    /\ fetched' = [fetched EXCEPT ![t] = NoFetch]
    /\ calls' = [calls EXCEPT ![t] = NoCalls]
    /\ UNCHANGED health

\* a handler that swallows the exception and goes on to answer
RaiseSwallowed(t, stage, type) ==
    /\ pc' = [pc EXCEPT ![t] = "formatted"]
    /\ err' = [err EXCEPT ![t] = [stage |-> stage, type |-> type]]
    /\ resp' = resp

\* a handler that tries a faulted inference a second time
RaiseRetry(t, stage, type) ==
    IF stage = "infer" /\ calls[t].generate < 2
    THEN /\ pc' = [pc EXCEPT ![t] = "validated"]
         /\ err' = err
         /\ resp' = resp
    ELSE /\ pc' = [pc EXCEPT ![t] = "failed"]
         /\ err' = [err EXCEPT ![t] = [stage |-> stage, type |-> type]]
         /\ resp' = [resp EXCEPT ![t] =
                        IF req[t].via = "flask" THEN FlaskError(type) ELSE NoResponse]

\* An exception leaves the pipeline: invocations() answers 500 with
\* {"error": message}; a direct caller sees the exception itself.
Raise(t, stage, type) ==
    /\ pc' = [pc EXCEPT ![t] = "failed"]
    /\ err' = [err EXCEPT ![t] = [stage |-> stage, type |-> type]]
    /\ resp' = [resp EXCEPT ![t] =
                   IF req[t].via = "flask" THEN FlaskError(type) ELSE NoResponse]

\* invocations() reads the body and input_fn parses it, up to load_audio
Parse(t) ==
    /\ pc[t] = "received"
    /\ LET data == IF req[t].via = "flask" THEN FlaskData(req[t])
                   ELSE [ok |-> TRUE, parsed |-> FALSE, body |-> req[t].body]
       IN IF ~data.ok
          THEN /\ Raise(t, "parse", "BadRequest")
               /\ UNCHANGED <<parsed, fetched, calls>>
          ELSE \E fo \in FetchOutcomes :
                 LET r == ParseInput(data, req[t].content_type, fo)
                 IN /\ fetched' = [fetched EXCEPT ![t] = r.fetch]
                    /\ calls' = [calls EXCEPT ![t].fetch =
                                    IF r.fetch.kind = "none" THEN @ ELSE @ + 1]
                    /\ IF r.ok
                       THEN /\ pc' = [pc EXCEPT ![t] = "parsed"]
                            /\ parsed' = [parsed EXCEPT ![t] = r]
                            /\ UNCHANGED <<resp, err>>
                       ELSE /\ Raise(t, "parse", r.errType)
                            /\ UNCHANGED parsed
    /\ UNCHANGED <<req, buf, rec, kwargs, pred, accept, out, health>>

\* load_audio: sf.read
Decode(t) ==
    /\ pc[t] = "parsed"
    /\ calls' = [calls EXCEPT ![t].decode = @ + 1]
    /\ LET d == SfRead(parsed[t].audio_data)
       IN IF d.ok
          THEN /\ pc' = [pc EXCEPT ![t] = "decoded"]
               /\ buf' = [buf EXCEPT ![t] = d.buf]
               /\ UNCHANGED <<resp, err>>
          ELSE /\ Raise(t, "decode", "ValueError")
               /\ UNCHANGED buf
    /\ UNCHANGED <<req, parsed, rec, kwargs, pred, accept, out, fetched, health>>

\* load_audio: downmix and resample.  What librosa does with an empty
\* array is left open: it returns an empty array or raises.
Normalize(t) ==
    /\ pc[t] = "decoded"
    /\ \E resampled \in BOOLEAN :
         /\ ~resampled => (buf[t].samples = 0 /\ buf[t].rate # DEFAULT_SAMPLE_RATE)
         /\ IF resampled
            THEN /\ pc' = [pc EXCEPT ![t] = "normalized"]
                 /\ buf' = [buf EXCEPT ![t] = Resample(Downmix(buf[t]))]
                 /\ UNCHANGED <<resp, err>>
            ELSE /\ Raise(t, "normalize", "ValueError")
                 /\ UNCHANGED buf
    /\ UNCHANGED <<req, parsed, rec, kwargs, pred, accept, out, fetched, calls, health>>

\* input_fn: the duration check and the returned dictionary
Validate(t) ==
    /\ pc[t] = "normalized"
    /\ LET duration == Duration(buf[t])
       IN IF TooLong(duration)
          THEN /\ Raise(t, "validate", "ValueError")
               /\ UNCHANGED rec
          ELSE /\ pc' = [pc EXCEPT ![t] = "validated"]
               /\ rec' = [rec EXCEPT ![t] =
                             [audio |-> buf[t], sample_rate |-> buf[t].rate,
                              language |-> parsed[t].language,
                              task |-> parsed[t].task, duration |-> duration]]
               /\ UNCHANGED <<resp, err>>
    /\ UNCHANGED <<req, parsed, buf, kwargs, pred, accept, out, fetched, calls, health>>

\* predict_fn up to and into model.generate
InferBegin(t) ==
    /\ pc[t] = "validated"
    /\ pc' = [pc EXCEPT ![t] = "inferring"]
    /\ kwargs' = [kwargs EXCEPT ![t] = GenerateKwargs(rec[t])]
    /\ calls' = [calls EXCEPT ![t].generate = @ + 1]
    /\ UNCHANGED <<req, parsed, buf, rec, pred, accept, out, resp, err, fetched, health>>

\* model.generate returns or raises; predict_fn assembles its result
InferEnd(t) ==
    /\ pc[t] = "inferring"
    /\ \E fault \in BOOLEAN :
         IF fault
         THEN /\ Raise(t, "infer", "RuntimeError")
              /\ UNCHANGED pred
         ELSE /\ pc' = [pc EXCEPT ![t] = "inferred"]
              /\ pred' = [pred EXCEPT ![t] = Prediction(rec[t], MeasuredMicros)]
              /\ UNCHANGED <<resp, err>>
    /\ UNCHANGED <<req, parsed, buf, rec, kwargs, accept, out, fetched, calls, health>>

\* output_fn: invocations() always asks for application/json, a direct
\* caller chooses the representation
Format(t) ==
    /\ pc[t] = "inferred"
    /\ \E a \in Accepts :
         /\ req[t].via = "flask" => a = ACCEPT_JSON
         /\ accept' = [accept EXCEPT ![t] = a]
         /\ out' = [out EXCEPT ![t] = output_fn(pred[t], a)]
    /\ pc' = [pc EXCEPT ![t] = "formatted"]
    /\ UNCHANGED <<req, parsed, buf, rec, kwargs, pred, resp, err, fetched, calls, health>>

\* return output, 200, {'Content-Type': 'application/json'}
Respond(t) ==
    /\ pc[t] = "formatted"
    /\ pc' = [pc EXCEPT ![t] = "responded"]
    /\ resp' = [resp EXCEPT ![t] =
                   [status |-> IF req[t].via = "flask" THEN 200 ELSE 0, body |-> out[t]]]
    /\ UNCHANGED <<req, parsed, buf, rec, kwargs, pred, accept, out, err, fetched, calls,
                   health>>

\* The handler has returned; the thread and its locals are gone.
Release(t) ==
    /\ pc[t] \in Terminal
    /\ pc' = [pc EXCEPT ![t] = "idle"]
    /\ req' = [req EXCEPT ![t] = NoRequest]
    /\ parsed' = [parsed EXCEPT ![t] = ParseBase]
    /\ buf' = [buf EXCEPT ![t] = NoBuffer]
    /\ rec' = [rec EXCEPT ![t] = NoRecord]
    /\ kwargs' = [kwargs EXCEPT ![t] = NoKwargs]
    /\ pred' = [pred EXCEPT ![t] = NoPrediction]
    /\ accept' = [accept EXCEPT ![t] = "none"]
    /\ out' = [out EXCEPT ![t] = NoBody]
    /\ resp' = [resp EXCEPT ![t] = NoResponse]
    /\ err' = [err EXCEPT ![t] = NoError]
    /\ fetched' = [fetched EXCEPT ![t] = NoFetch]
    /\ calls' = [calls EXCEPT ![t] = NoCalls]
    /\ UNCHANGED health

\* a health check that reports 503 while a request is inside the model
PingBusy ==
    /\ health = NoAnswer
    /\ health' = IF \E t \in Threads : pc[t] = "inferring"
                 THEN [status |-> 503, body |-> "busy"]
                 ELSE Healthy
    /\ UNCHANGED pipeline

\* GET /ping: ping() answers without looking at anything
Ping ==
    /\ health = NoAnswer
    /\ health' = Healthy
    /\ UNCHANGED pipeline

\* the client has read the answer to its GET /ping
PingAnswered ==
    /\ health # NoAnswer
    /\ health' = NoAnswer
    /\ UNCHANGED pipeline

\* One step of the pipeline of thread t
Step(t) ==
    \/ Parse(t)
    \/ Decode(t)
    \/ Normalize(t)
    \/ Validate(t)
    \/ InferBegin(t)
    \/ InferEnd(t)
    \/ Format(t)
    \/ Respond(t)

\* ---------------------------------------------------------- specifications
\* One request at a time, over every request shape.
Main == CHOOSE t \in Threads : \A u \in Threads : t <= u

Next ==
    \/ (pc[Main] = "idle" /\ \E rq \in Requests : Receive(Main, rq))
    \/ Step(Main)
    \/ Release(Main)

Spec == Init /\ [][Next]_vars


\* The threaded server (app.run(threaded=True)): every request runs on a
\* thread of its own and the threads interleave stage by stage.
OneSecond == [fmt |-> "wav", channels |-> 1, rate |-> DEFAULT_SAMPLE_RATE,
              frames |-> DEFAULT_SAMPLE_RATE]

Overlong == [fmt |-> "wav", channels |-> MaxChannels, rate |-> 44100,
             frames |-> 44100 * MAX_AUDIO_LENGTH_SECONDS + OverFrames]

Empty8k == [fmt |-> "wav", channels |-> 1, rate |-> 8000, frames |-> 0]

ThreadedRequests ==
    { [via |-> "flask", content_type |-> OCTET,
       body |-> [form |-> "audio", payload |-> b, doc |-> NoDoc]] :
        b \in {OneSecond, Overlong, Empty8k, Junk} }
    \cup
    { [via |-> "flask", content_type |-> JSON, body |-> b] :
        b \in {SampleJsonBody, MalformedBody} }
    \cup
    { [via |-> "flask", content_type |-> "text/plain",
       body |-> [form |-> "audio", payload |-> OneSecond, doc |-> NoDoc]] }

NextThreaded ==
    \/ \E t \in Threads :
          \/ (pc[t] = "idle" /\ \E rq \in ThreadedRequests : Receive(t, rq))
          \/ Step(t)
          \/ Release(t)
    \/ Ping
    \/ PingAnswered

SpecThreaded == Init /\ [][NextThreaded]_vars

\* A started handler runs to its end: nothing cancels a request thread.
FairSpecThreaded == SpecThreaded /\ \A t \in Threads : WF_vars(Step(t))

\* output_fn called on its own with any dictionary as the prediction.
SampleRecords ==
    { [audio |-> [samples |-> DEFAULT_SAMPLE_RATE, rate |-> DEFAULT_SAMPLE_RATE,
                  channels |-> 1],
       sample_rate |-> DEFAULT_SAMPLE_RATE, language |-> l, task |-> k,
       duration |-> [num |-> DEFAULT_SAMPLE_RATE, den |-> DEFAULT_SAMPLE_RATE]] :
        l \in {Null, "en"}, k \in {"transcribe", Null} }

SamplePredictions ==
    { [Prediction(r, MeasuredMicros) EXCEPT !.keys = ks] :
        r \in SampleRecords, ks \in SUBSET PredictionKeys }

FormatRecord(t, p, a) ==
    /\ pc[t] = "idle"
    /\ pc' = [pc EXCEPT ![t] = "formatted"]
    /\ req' = [req EXCEPT ![t] = [NoRequest EXCEPT !.via = "output_fn"]]
    /\ pred' = [pred EXCEPT ![t] = p]
    /\ accept' = [accept EXCEPT ![t] = a]
    /\ out' = [out EXCEPT ![t] = output_fn(p, a)]
    /\ UNCHANGED <<parsed, buf, rec, kwargs, resp, err, fetched, calls, health>>

NextFormat ==
    \/ (pc[Main] = "idle" /\
        \E p \in SamplePredictions, a \in Accepts : FormatRecord(Main, p, a))
    \/ Respond(Main)
    \/ Release(Main)

SpecFormat == Init /\ [][NextFormat]_vars


\* input_fn called twice on the same WAV bytes, once base64 encoded in a JSON
\* request and once as raw bytes, as steps 2a and 2b of test_inference.py.
Other == CHOOSE t \in Threads : t # Main

ReceivePair(w) ==
    /\ pc[Main] = "idle" /\ pc[Other] = "idle"
    /\ pc' = [pc EXCEPT ![Main] = "received", ![Other] = "received"]
    /\ req' = [req EXCEPT
                  ![Main] = [via |-> "direct", content_type |-> JSON,
                             body |-> [form |-> "json", payload |-> Junk,
                                       doc |-> [shape |-> "object",
                                                audio |-> B64Encode(w),
                                                audio_url |-> NoUrl,
                                                language |-> "en",
                                                task |-> "transcribe"]]],
                  ![Other] = [via |-> "direct", content_type |-> OCTET,
                              body |-> [form |-> "audio", payload |-> w,
                                        doc |-> NoDoc]]]
    /\ UNCHANGED <<parsed, buf, rec, kwargs, pred, accept, out, resp, err, fetched,
                   calls, health>>

\* One step of input_fn for the request of thread t
InputStep(t) ==
    \/ Parse(t)
    \/ Decode(t)
    \/ Normalize(t)
    \/ Validate(t)

NextRoundTrip ==
    \/ \E w \in WavFiles : ReceivePair(w)
    \/ \E t \in {Main, Other} : InputStep(t)

SpecRoundTrip == Init /\ [][NextRoundTrip]_vars

\* ------------------------------------------------------------ properties
\* the request of thread t has been through load_audio's normalization
Normalized(t) ==
    \/ pc[t] \in {"normalized", "validated", "inferring", "inferred", "formatted",
                  "responded"}
    \/ pc[t] = "failed" /\ err[t].stage \in {"validate", "infer"}

\* input_fn has returned its dictionary for the request of thread t
Returned(t) ==
    \/ pc[t] \in {"validated", "inferring", "inferred", "formatted", "responded"}
    \/ pc[t] = "failed" /\ err[t].stage = "infer"

LimitSamples == MAX_AUDIO_LENGTH_SECONDS * DEFAULT_SAMPLE_RATE

\* C1: a request whose normalized audio lasts more than 300 seconds
\* (samples / 16000 > 300) fails in input_fn's duration check and
\* model.generate is never called for it; a request of at most 300 seconds
\* is not failed by the check and is returned with its buffer unchanged.
C1_DurationLimit ==
    \A t \in Threads :
        Normalized(t) =>
            /\ buf[t].samples > LimitSamples =>
                   /\ pc[t] \in {"normalized", "failed"}
                   /\ pc[t] = "failed" => err[t].stage = "validate"
                   /\ calls[t].generate = 0
                   /\ rec[t] = NoRecord
            /\ buf[t].samples <= LimitSamples =>
                   ~(pc[t] = "failed" /\ err[t].stage = "validate")
            /\ Returned(t) =>
                   /\ rec[t].audio = buf[t]
                   /\ rec[t].duration = [num |-> buf[t].samples,
                                         den |-> DEFAULT_SAMPLE_RATE]

C1_Witness ==
    \E t \in Threads :
        /\ pc[t] = "failed" /\ err[t].stage = "validate"
        /\ buf[t].samples = LimitSamples + 1
        /\ calls[t].generate = 0

\* C2: every POST /invocations moves through parse, decode, normalize,
\* validate, infer, format in that order, a failure goes straight to
\* Failed, every received request ends Responded (status 200, a success
\* body with the transcription and no error) or Failed (status 500, an
\* error body with no transcription), and nothing is answered before.
StageOrder ==
    { <<"idle", "received">>, <<"received", "parsed">>, <<"parsed", "decoded">>,
      <<"decoded", "normalized">>, <<"normalized", "validated">>,
      <<"validated", "inferring">>, <<"inferring", "inferred">>,
      <<"inferred", "formatted">>, <<"formatted", "responded">>,
      <<"responded", "idle">>, <<"failed", "idle">> }
    \cup { <<st, "failed">> : st \in Stages \ ({"idle"} \cup Terminal) }

Outcome(t) ==
    /\ pc[t] = "responded" =>
           /\ resp[t].status = 200
           /\ resp[t].body.kind = "structured" /\ resp[t].body.success
           /\ resp[t].body.transcription = pred[t].transcription
           /\ resp[t].body.error = ""
           /\ err[t] = NoError
    /\ pc[t] = "failed" =>
           /\ resp[t].status = 500
           /\ resp[t].body.kind = "error" /\ ~resp[t].body.success
           /\ resp[t].body.error # "" /\ resp[t].body.transcription = ""
           /\ out[t] = NoBody
           /\ err[t].stage = "parse" => calls[t].decode = 0
           /\ err[t].stage # "infer" => calls[t].generate = 0
    /\ pc[t] \notin Terminal => resp[t] = NoResponse

C2_Lifecycle ==
    /\ [][\A t \in Threads : pc'[t] # pc[t] => <<pc[t], pc'[t]>> \in StageOrder]_vars
    /\ [](\A t \in Threads : Outcome(t))
    /\ \A t \in Threads : (pc[t] = "received") ~> (pc[t] \in Terminal)

C2_Witness ==
    \E t, u \in Threads :
        /\ pc[t] = "responded" /\ resp[t].status = 200
        /\ pc[u] = "failed" /\ err[u].stage = "validate" /\ resp[u].status = 500

\* C3: a POST /invocations of type application/json or
\* application/octet-stream whose payload is well formed for its type,
\* whose audio decodes and is within the limit and whose inference does
\* not fault is answered 200 with a success body; the answer is 500 with
\* {"error": message} exactly when a stage failed.
WellFormed(rq) ==
    \/ rq.content_type = OCTET /\ rq.body.form = "audio"
    \/ /\ rq.content_type = JSON /\ rq.body.form = "json"
       /\ rq.body.doc.shape = "object"
       /\ rq.body.doc.audio.present /\ StrictBase64(rq.body.doc.audio)

SentAudio(rq) ==
    IF rq.content_type = JSON THEN rq.body.doc.audio.payload ELSE AsAudio(rq.body)

AudioWithinLimit(b) ==
    /\ SfRead(b).ok
    /\ ~TooLong(Duration(Resample(Downmix(SfRead(b).buf))))

C3_FrontEndStatus ==
    \A t \in Threads :
        (req[t].via = "flask" /\ req[t].content_type \in {JSON, OCTET}
            /\ pc[t] \in Terminal) =>
            /\ (resp[t].status = 500 /\ resp[t].body.kind = "error") <=> pc[t] = "failed"
            /\ (WellFormed(req[t]) /\ AudioWithinLimit(SentAudio(req[t]))
                    /\ err[t].stage \notin {"normalize", "infer"}) =>
                   (resp[t].status = 200 /\ resp[t].body.success)

\* C4: whatever the channel count and rate of the decoded audio, the buffer
\* load_audio returns, and the record input_fn returns, is mono at 16000.
C4_MonoAt16k ==
    \A t \in Threads :
        /\ Normalized(t) =>
               buf[t].channels = 1 /\ buf[t].rate = DEFAULT_SAMPLE_RATE
        /\ Returned(t) =>
               /\ rec[t].sample_rate = DEFAULT_SAMPLE_RATE
               /\ rec[t].audio.channels = 1
               /\ rec[t].audio.rate = DEFAULT_SAMPLE_RATE

C4_Witness ==
    \E t \in Threads :
        /\ pc[t] = "inferring"
        /\ parsed[t].audio_data.channels > 1
        /\ parsed[t].audio_data.rate # DEFAULT_SAMPLE_RATE
        /\ buf[t].channels = 1

\* C5: no two requests are inside model.generate at the same time.
C5_GenerateSerialized ==
    \A t, u \in Threads : (pc[t] = "inferring" /\ pc[u] = "inferring") => t = u

C7_UnsupportedContentType ==
    \A t \in Threads :
        (req[t].content_type \notin {JSON, OCTET} /\ pc[t] \notin {"idle", "received"}) =>
            /\ pc[t] = "failed" /\ err[t].stage = "parse"
            /\ calls[t] = NoCalls /\ fetched[t] = NoFetch

C7_Witness ==
    \E t \in Threads :
        /\ pc[t] = "failed" /\ err[t].stage = "parse"
        /\ req[t].via = "flask"
        /\ req[t].content_type = "application/json; charset=utf-8"
        /\ req[t].body.form = "json"

\* C8: input_fn given application/json bytes fails with an input-format
\* error (ValueError) when the bytes are not JSON, when the audio field is
\* not valid base64, and when the object has neither audio nor audio_url;
\* the decoder and the model are then never called.
InputFormatErrors == {"ValueError", "UnicodeDecodeError"}

BadJsonInput(rq) ==
    \/ rq.body.form # "json"
    \/ /\ rq.body.doc.shape = "object"
       /\ \/ rq.body.doc.audio.present /\ ~StrictBase64(rq.body.doc.audio)
          \/ ~rq.body.doc.audio.present /\ ~rq.body.doc.audio_url.present

C8_JsonInputRejected ==
    \A t \in Threads :
        (req[t].via = "direct" /\ req[t].content_type = JSON
            /\ pc[t] \notin {"idle", "received"} /\ BadJsonInput(req[t])) =>
            /\ pc[t] = "failed" /\ err[t].stage = "parse"
            /\ err[t].type \in InputFormatErrors
            /\ calls[t].decode = 0 /\ calls[t].generate = 0

\* C9: the parameters given to model.generate hold a language entry exactly
\* when the caller gave a language, and always a task entry: the caller's
\* task, or transcribe when the caller gave none, null or "".
CallerDoc(rq) == IF rq.content_type = JSON THEN rq.body.doc ELSE NoDoc

C9_GenerationParameters ==
    \A t \in Threads :
        calls[t].generate > 0 =>
            LET doc == CallerDoc(req[t])
            IN /\ (kwargs[t].language # Absent) <=> Truthy(doc.language)
               /\ Truthy(doc.language) => kwargs[t].language = doc.language
               /\ kwargs[t].task # Absent
               /\ kwargs[t].task = IF Truthy(doc.task) THEN doc.task ELSE "transcribe"

\* C10: a request that does not set task (JSON without the field, or
\* octet-stream) and succeeds has task transcribe in the generation
\* parameters and in metadata.task of the structured response.
TaskUnset(rq) ==
    \/ rq.content_type = OCTET
    \/ rq.content_type = JSON /\ rq.body.form = "json"
           /\ rq.body.doc.shape = "object" /\ rq.body.doc.task = Absent

C10_DefaultTask ==
    \A t \in Threads :
        (TaskUnset(req[t]) /\ calls[t].generate > 0) =>
            /\ kwargs[t].task = "transcribe"
            /\ pc[t] \in {"inferred", "formatted", "responded"} =>
                   pred[t].task = "transcribe"
            /\ (pc[t] \in {"formatted", "responded"} /\ out[t].kind = "structured") =>
                   out[t].metadata.task = "transcribe"

C10_Witness ==
    \E t \in Threads :
        /\ pc[t] = "responded" /\ req[t].content_type = JSON
        /\ req[t].body.doc.task = Absent
        /\ out[t].kind = "structured" /\ out[t].metadata.task = "transcribe"
        /\ kwargs[t].task = "transcribe"

\* C11: nothing is retried.  A request calls model.generate at most once
\* and issues at most one fetch; a fault of either ends the request as
\* failed, and a failed request takes no further step but its release.
FetchErrors == {"ClientError", "OSError"}

C11_NoRetry ==
    /\ [](\A t \in Threads :
            /\ calls[t].generate <= 1
            /\ calls[t].fetch <= 1
            /\ err[t].stage = "infer" =>
                   pc[t] = "failed" /\ calls[t].generate = 1
            /\ err[t].type \in FetchErrors =>
                   /\ pc[t] = "failed" /\ err[t].stage = "parse"
                   /\ calls[t] = [fetch |-> 1, decode |-> 0, generate |-> 0])
    /\ [][\A t \in Threads : pc[t] = "failed" => pc'[t] \in {"failed", "idle"}]_vars

C11_Witness ==
    \E t \in Threads :
        /\ pc[t] = "failed" /\ err[t].stage = "infer"
        /\ calls[t].fetch = 1 /\ calls[t].generate = 1
        /\ fetched[t].kind = "s3"

\* C12: the same WAV bytes sent base64 encoded in the audio field of an
\* application/json request and sent raw as application/octet-stream reach
\* load_audio as the same bytes, and the two records input_fn returns have
\* the same sample count, sample rate and duration.
SameWav(t, u) ==
    /\ req[t].content_type = JSON /\ req[t].body.form = "json"
    /\ req[u].content_type = OCTET /\ req[u].body.form = "audio"
    /\ req[u].body.payload.fmt = "wav"
    /\ req[t].body.doc.audio = B64Encode(req[u].body.payload)

C13_PingHealthy ==
    /\ [](health \in {NoAnswer, Healthy})
    /\ [](health = NoAnswer => ENABLED Ping)
    /\ [][health' # health => UNCHANGED pipeline]_vars

C13_Witness ==
    /\ health = Healthy
    /\ \E t, u \in Threads :
           /\ pc[t] = "failed"
           /\ pc[u] = "inferring"

\* C14: input_fn resolves an audio_url that starts with "s3://" by a fetch
\* whose bucket is the text between the prefix and the first "/" after it
\* and whose key is everything after that "/", unchanged; any other
\* audio_url is read as a local path and no object-storage fetch is issued.
AfterPrefix(parts) == Tail(parts)

C14_BucketKeySplit ==
    \A t \in Threads :
        (req[t].via = "direct" /\ req[t].content_type = JSON
            /\ req[t].body.form = "json" /\ req[t].body.doc.audio_url.present
            /\ pc[t] \notin {"idle", "received"}) =>
            LET parts == req[t].body.doc.audio_url.parts
                i == FirstIndex(AfterPrefix(parts), "/")
            IN IF Head(parts) = S3Prefix
               THEN i # 0 =>
                        /\ fetched[t].kind = "s3"
                        /\ fetched[t].bucket = SubSeq(AfterPrefix(parts), 1, i - 1)
                        /\ fetched[t].key =
                               SubSeq(AfterPrefix(parts), i + 1, Len(AfterPrefix(parts)))
               ELSE /\ fetched[t].kind = "file"
                    /\ fetched[t].path = parts

\* C15: a request that reaches model.generate has task transcribe or
\* translate; a request with any other task value never reaches it.
ValidTasks == {"transcribe", "translate"}

C15_TaskDomain ==
    \A t \in Threads :
        /\ Returned(t) => rec[t].task \in ValidTasks
        /\ calls[t].generate > 0 =>
               /\ rec[t].task \in ValidTasks
               /\ CallerDoc(req[t]).task \in ValidTasks \cup {Absent}

====
